---- MODULE Spec2Model ----
(***************************************************************************)
(* Model of nba-bot.py: a weekly run that creates the games table, asks a  *)
(* text-generation service for the Cavaliers schedule, stores the parsed   *)
(* games in SQLite (with the tip-off converted from US/Eastern to          *)
(* Europe/Paris) and posts a digest of the whole table on Discord.         *)
(***************************************************************************)
EXTENDS Integers, Sequences, FiniteSets, TLC

VARIABLES
    pc,            \* position of the script: boot, main, fetch, persist, notify, done, halted, hung
    run,           \* number of the current invocation of the script
    dbExists,      \* games.db exists on disk (with its games table)
    store,         \* committed rows of table games, in insertion order
    seq,           \* sqlite_sequence value for games (largest id handed out and committed)
    reply,         \* response.choices[0].message.content of this run, as tokens
    matches,       \* value returned by fetch_cavs_schedule in this run
    rows,          \* result of fetchall() in on_ready
    message,       \* text handed to channel.send, as a sequence of blocks
    steps,         \* steps started in this run, in order
    storeAtStart,  \* store as it was when this run started
    dbAtStart,     \* whether games.db existed when this run started
    committed,     \* batches committed by save_to_db so far, oldest first
    faults,        \* external calls that raised in this run
    today,         \* datetime.today().date() in fetch_cavs_schedule, as an ordinal
    next_sunday,   \* local of fetch_cavs_schedule
    end_of_week,   \* local of fetch_cavs_schedule
    date_str,      \* argument of convert_et_to_paris
    time_str,      \* argument of convert_et_to_paris
    dt_paris       \* result of convert_et_to_paris

vars == <<pc, run, dbExists, store, seq, reply, matches, rows, message, steps,
          storeAtStart, dbAtStart, committed, faults, today, next_sunday, end_of_week,
          date_str, time_str, dt_paris>>

runVars == <<pc, run, dbExists, store, seq, reply, matches, rows, message, steps,
             storeAtStart, dbAtStart, committed, faults>>

weekVars == <<today, next_sunday, end_of_week>>

convVars == <<date_str, time_str, dt_paris>>

(***************************************************************************)
(* Bounds of the model.                                                    *)
(***************************************************************************)
MaxRuns == 2

MaxRows == 4

MaxBatch == 2

MaxYear == 2024

MaxDayOffset == 120

(***************************************************************************)
(* Calendar arithmetic of datetime.date (proleptic Gregorian ordinals).    *)
(***************************************************************************)
IsLeap(y) == (y % 4 = 0) /\ ((y % 100 # 0) \/ (y % 400 = 0))

DaysInMonth(y, m) ==
    IF m = 2 THEN (IF IsLeap(y) THEN 29 ELSE 28)
    ELSE IF m \in {4, 6, 9, 11} THEN 30 ELSE 31

DaysBeforeYear(y) ==
    (y - 1) * 365 + ((y - 1) \div 4) - ((y - 1) \div 100) + ((y - 1) \div 400)

RECURSIVE DaysBeforeMonth(_, _)
DaysBeforeMonth(y, m) ==
    IF m = 1 THEN 0 ELSE DaysBeforeMonth(y, m - 1) + DaysInMonth(y, m - 1)

\* date(y, m, d).toordinal()
Ordinal(y, m, d) == DaysBeforeYear(y) + DaysBeforeMonth(y, m) + d

\* date.fromordinal(n), as <<year, month, day>>
FromOrdinal(n) ==
    LET y == CHOOSE yy \in (n \div 366)..((n \div 365) + 1) :
                 DaysBeforeYear(yy) < n /\ n <= DaysBeforeYear(yy + 1)
        r == n - DaysBeforeYear(y)
        m == CHOOSE mm \in 1..12 :
                 DaysBeforeMonth(y, mm) < r /\ r <= DaysBeforeMonth(y, mm) + DaysInMonth(y, mm)
    IN <<y, m, r - DaysBeforeMonth(y, m)>>

\* date.weekday(): Monday is 0, Sunday is 6
weekday(n) == (n + 6) % 7

(***************************************************************************)
(* The week window of fetch_cavs_schedule.                                 *)
(***************************************************************************)
NextSundayOffByOne(t) == t + (7 - weekday(t))

NextSunday(t) == t + (6 - weekday(t))

EndOfWeek(ns) == ns + 6

(***************************************************************************)
(* Time zones as pytz resolves them (rules in force since 2007).           *)
(* Instants and wall clocks are minutes: ordinal * 1440 + hour * 60 + min. *)
(***************************************************************************)
Minutes(o, h, mi) == o * 1440 + h * 60 + mi

\* ordinal of the n-th Sunday of month m
NthSunday(y, m, n) ==
    LET first == Ordinal(y, m, 1)
    IN first + ((6 - weekday(first)) % 7) + 7 * (n - 1)

\* ordinal of the last Sunday of month m
LastSunday(y, m) ==
    LET last == Ordinal(y, m, DaysInMonth(y, m))
    IN last - ((weekday(last) + 1) % 7)

EST == -300

EDT == -240

CET == 60

CEST == 120

YearOfMinutes(u) == FromOrdinal(u \div 1440)[1]

\* utcoffset of US/Eastern at UTC instant u: EDT from the second Sunday of
\* March 07:00 UTC to the first Sunday of November 06:00 UTC
EasternOffsetAtUTC(u) ==
    LET y == YearOfMinutes(u)
    IN IF /\ u >= Minutes(NthSunday(y, 3, 2), 7, 0)
          /\ u < Minutes(NthSunday(y, 11, 1), 6, 0)
       THEN EDT ELSE EST

\* utcoffset of Europe/Paris at UTC instant u: CEST from the last Sunday of
\* March 01:00 UTC to the last Sunday of October 01:00 UTC
ParisOffsetAtUTC(u) ==
    LET y == YearOfMinutes(u)
    IN IF /\ u >= Minutes(LastSunday(y, 3), 1, 0)
          /\ u < Minutes(LastSunday(y, 10), 1, 0)
       THEN CEST ELSE CET

\* The mutant: a fixed offset, whatever the date.
LocalizeFixedOffset(w) == w - EST

\* et.localize(dt) with is_dst=False: the UTC instant of Eastern wall clock w.
\* A wall clock that exists once has its own offset; one that does not exist
\* (spring forward) or exists twice (fall back) is read as standard time.
Localize(w) ==
    LET possible == {o \in {EST, EDT} : EasternOffsetAtUTC(w - o) = o}
    IN IF Cardinality(possible) = 1
       THEN w - (CHOOSE o \in possible : TRUE)
       ELSE w - EST

\* dt_et.astimezone(paris): the Paris wall clock of UTC instant u
AsTimezoneParis(u) == u + ParisOffsetAtUTC(u)

\* datetime.strptime(date_str + " " + time_str, "%Y-%m-%d %H:%M") accepts
ValidDate(d) ==
    /\ d[1] \in 1..9999
    /\ d[2] \in 1..12
    /\ d[3] \in 1..DaysInMonth(d[1], d[2])

ValidTime(t) == t[1] \in 0..23 /\ t[2] \in 0..59

ValueError == <<"ValueError">>

\* strftime("%Y-%m-%d %H:%M") of wall clock w, as <<year, month, day, hour, minute>>
Strftime(w) ==
    FromOrdinal(w \div 1440) \o <<(w % 1440) \div 60, w % 60>>

convert_et_to_paris(d, t) ==
    IF ~(ValidDate(d) /\ ValidTime(t))
    THEN ValueError
    ELSE Strftime(AsTimezoneParis(Localize(Minutes(Ordinal(d[1], d[2], d[3]), t[1], t[2]))))

(***************************************************************************)
(* The reply of the text-generation service and json.loads.                *)
(* A reply is a sequence of tokens: "[", "]", ",", an object literal named *)
(* by its token, the number "7", or "x" for text that is no JSON at all.   *)
(***************************************************************************)
AllKeys == {"date", "opponent", "home", "team_rank", "opponent_rank", "time_et", "watch", "summary"}

RequiredKeys == {"date", "opponent", "home", "time_et", "watch"}

Null == "null"

Game(keys, date, opponent, home, time_et, watch, team_rank, opponent_rank, summary) ==
    [keys |-> keys, date |-> date, opponent |-> opponent, home |-> home,
     time_et |-> time_et, watch |-> watch, team_rank |-> team_rank,
     opponent_rank |-> opponent_rank, summary |-> summary]

\* the object literals a reply may contain
ObjectOf(tok) ==
    CASE tok = "gA" -> Game(AllKeys, <<2024, 3, 10>>, "Boston Celtics", "true",
                            <<19, 30>>, "full", "1", "2", "Rivalry game")
      [] tok = "gB" -> Game(RequiredKeys, <<2024, 3, 5>>, "Miami Heat", "false",
                            <<19, 0>>, "condensed", Null, Null, Null)
      [] tok = "gC" -> Game(AllKeys, <<2024, 3, 10>>, "New York Knicks", "false",
                            <<13, 0>>, "condensed", "1", "4", "Matinee")
      [] tok = "bW" -> Game(AllKeys, <<2024, 3, 12>>, "Chicago Bulls", "true",
                            <<20, 0>>, "skip", "1", "9", "Not worth it")
      [] tok = "bK" -> Game(AllKeys \ {"time_et"}, <<2024, 3, 14>>, "Orlando Magic", "true",
                            <<0, 0>>, "full", "1", "5", "No tip-off time")
      [] tok = "bN" -> Game(AllKeys, <<2024, 3, 15>>, "Atlanta Hawks", Null,
                            <<19, 30>>, "full", "1", "8", "Venue unknown")
      [] tok = "bT" -> Game(AllKeys, <<2024, 3, 16>>, "Detroit Pistons", "false",
                            <<25, 0>>, "condensed", "1", "12", "Bad clock")

ObjectTokens == {"gA", "gB", "gC", "bW", "bK", "bN", "bT"}

NumberTokens == {"7"}

JsonNum(tok) == [k |-> "num", tok |-> tok, items |-> <<>>]

JsonObj(tok) == [k |-> "obj", tok |-> tok, items |-> <<>>]

JsonArr(items) == [k |-> "arr", tok |-> "", items |-> items]

JSONDecodeError == [ok |-> FALSE, val |-> JsonArr(<<>>), next |-> 0]

\* Recursive descent over the tokens from position i: the value read and the
\* position after it, or JSONDecodeError.
RECURSIVE ParseValue(_, _)
RECURSIVE ParseItems(_, _, _)
ParseValue(text, i) ==
    IF i > Len(text) THEN JSONDecodeError
    ELSE IF text[i] \in ObjectTokens THEN [ok |-> TRUE, val |-> JsonObj(text[i]), next |-> i + 1]
    ELSE IF text[i] \in NumberTokens THEN [ok |-> TRUE, val |-> JsonNum(text[i]), next |-> i + 1]
    ELSE IF text[i] = "["
         THEN IF i + 1 <= Len(text) /\ text[i + 1] = "]"
              THEN [ok |-> TRUE, val |-> JsonArr(<<>>), next |-> i + 2]
              ELSE ParseItems(text, i + 1, <<>>)
    ELSE JSONDecodeError

\* the items of an array after "[" or ",": a value, then "," or "]"
ParseItems(text, i, acc) ==
    LET v == ParseValue(text, i)
    IN IF ~v.ok THEN JSONDecodeError
       ELSE IF v.next > Len(text) THEN JSONDecodeError
       ELSE IF text[v.next] = "]"
            THEN [ok |-> TRUE, val |-> JsonArr(Append(acc, v.val)), next |-> v.next + 1]
       ELSE IF text[v.next] = ","
            THEN ParseItems(text, v.next + 1, Append(acc, v.val))
       ELSE JSONDecodeError

\* json.loads(text): one value that spans the whole text
json_loads(text) ==
    LET v == ParseValue(text, 1)
    IN IF v.ok /\ v.next = Len(text) + 1 THEN v ELSE JSONDecodeError

\* the text of an array of the given element tokens
RECURSIVE JoinComma(_)
JoinComma(elems) ==
    IF Len(elems) = 0 THEN <<>>
    ELSE IF Len(elems) = 1 THEN <<elems[1]>>
    ELSE <<elems[1], ",">> \o JoinComma(Tail(elems))

ArrayText(elems) == <<"[">> \o JoinComma(elems) \o <<"]">>

ElementTokens == ObjectTokens \cup NumberTokens

Batches == UNION {[1..n -> ElementTokens] : n \in 0..MaxBatch}

\* the replies the service may give: well-formed arrays, the same cut short,
\* wrapped in prose or with a trailing comma, and values that are no array
Replies ==
    {ArrayText(b) : b \in Batches}
        \cup {<<"[">> \o JoinComma(b) : b \in Batches}
        \cup {<<"x">> \o ArrayText(b) : b \in Batches}
        \cup {<<"[">> \o JoinComma(b) \o <<",", "]">> : b \in Batches}
        \cup {<<>>, <<"x">>, <<"7">>, <<"gA">>, <<"[", "[", "gA", "]", "]">>}

(***************************************************************************)
(* Table games and save_to_db.  A row carries the columns of the schema    *)
(* but created_at; dates are compared as SQLite compares the ISO text.     *)
(***************************************************************************)
Row(id, m, time_paris) ==
    [id |-> id, date |-> m.date, opponent |-> m.opponent, home |-> m.home,
     team_rank |-> IF "team_rank" \in m.keys THEN m.team_rank ELSE Null,
     opponent_rank |-> IF "opponent_rank" \in m.keys THEN m.opponent_rank ELSE Null,
     time_et |-> m.time_et, time_paris |-> time_paris, watch |-> m.watch,
     summary |-> IF "summary" \in m.keys THEN m.summary ELSE Null]

\* id INTEGER PRIMARY KEY AUTOINCREMENT: one more than the largest id ever used
NextId(seqv) == seqv + 1

\* The mutant: an upsert keyed on (date, opponent) instead of a plain INSERT.
UpsertRow(tbl, row) ==
    IF \E i \in 1..Len(tbl) : tbl[i].date = row.date /\ tbl[i].opponent = row.opponent
    THEN [i \in 1..Len(tbl) |->
              IF tbl[i].date = row.date /\ tbl[i].opponent = row.opponent THEN row ELSE tbl[i]]
    ELSE Append(tbl, row)

\* The mutant: INSERT OR IGNORE under a unique (date, opponent).
InsertRowOnce(tbl, row) ==
    IF \E i \in 1..Len(tbl) : tbl[i].date = row.date /\ tbl[i].opponent = row.opponent
    THEN tbl
    ELSE Append(tbl, row)

\* INSERT INTO games (...) VALUES (...)
InsertRow(tbl, row) == Append(tbl, row)

\* what one pass of the loop raises for element e, or "" (lines 158-172)
MatchError(e) ==
    IF e.k # "obj" THEN "TypeError"
    ELSE LET m == ObjectOf(e.tok)
         IN IF ~({"date", "time_et"} \subseteq m.keys) THEN "KeyError"
            ELSE IF convert_et_to_paris(m.date, m.time_et) = ValueError THEN "ValueError"
            ELSE IF ~({"opponent", "home", "watch"} \subseteq m.keys) THEN "KeyError"
            ELSE IF Null \in {m.opponent, m.home, m.watch} THEN "IntegrityError"
            ELSE ""

\* the loop of save_to_db from element i on, inside the open transaction txn
RECURSIVE InsertAll(_, _, _)
InsertAll(items, i, txn) ==
    IF i > Len(items) THEN txn
    ELSE IF MatchError(items[i]) # ""
         THEN [txn EXCEPT !.error = MatchError(items[i])]
    ELSE LET m == ObjectOf(items[i].tok)
             id == NextId(txn.seq)
             row == Row(id, m, convert_et_to_paris(m.date, m.time_et))
         IN InsertAll(items, i + 1,
                      [tbl |-> InsertRow(txn.tbl, row), seq |-> id, error |-> ""])

\* what "for match in data" iterates over: the items of a list; the keys of a
\* dict (strings, numbered here); a number is not iterable
Iterated(data) ==
    IF data.k = "arr" THEN data.items
    ELSE <<JsonNum(data.tok)>>

\* The mutant: every row is committed as it is inserted.
CommitEachRow(before, txn) == [tbl |-> txn.tbl, seq |-> txn.seq, error |-> txn.error]

\* conn.commit() is reached only when the loop raised nothing; otherwise the
\* open transaction is rolled back when the process dies
Durable(before, txn) ==
    IF txn.error = "" THEN txn ELSE [before EXCEPT !.error = txn.error]

save_to_db(data, tbl, seqv) ==
    LET before == [tbl |-> tbl, seq |-> seqv, error |-> ""]
    IN Durable(before, InsertAll(Iterated(data), 1, before))

(***************************************************************************)
(* The listing and the digest of on_ready.                                 *)
(***************************************************************************)
\* text comparison of two ISO dates
DateLess(a, b) ==
    \/ a[1] < b[1]
    \/ a[1] = b[1] /\ a[2] < b[2]
    \/ a[1] = b[1] /\ a[2] = b[2] /\ a[3] < b[3]

RECURSIVE OrderedByDate(_)
\* SELECT ... FROM games ORDER BY date: every order of the rows in which the
\* dates ascend; rows of equal date come in any order
OrderedByDate(S) ==
    IF S = {} THEN {<<>>}
    ELSE UNION {{<<r>> \o t : t \in OrderedByDate(S \ {r})} :
                   r \in {x \in S : \A y \in S : ~DateLess(y.date, x.date)}}

RowSet(tbl) == {tbl[i] : i \in 1..Len(tbl)}

\* the columns selected: date, opponent, home, time_paris, watch, summary
Selected(r) ==
    [date |-> r.date, opponent |-> r.opponent, home |-> r.home,
     time_paris |-> r.time_paris, watch |-> r.watch, summary |-> r.summary]

SelectAll(listing) == [i \in 1..Len(listing) |-> Selected(listing[i])]

\* str.upper()
Upper(w) ==
    CASE w = "full" -> "FULL"
      [] w = "condensed" -> "CONDENSED"
      [] w = "skip" -> "SKIP"

\* one block of the digest (line 195)
Block(r) ==
    [date |-> r.date, time_paris |-> r.time_paris,
     domicile |-> IF r.home = "true" THEN "home" ELSE "away",
     opponent |-> r.opponent, watch |-> Upper(r.watch),
     summary |-> IF r.summary = Null THEN "None" ELSE r.summary]

Digest(rs) == [sent |-> TRUE, blocks |-> [i \in 1..Len(rs) |-> Block(rs[i])]]

NoMessage == [sent |-> FALSE, blocks |-> <<>>]

(***************************************************************************)
(* The script, one invocation after another.                               *)
(***************************************************************************)
\* no date yet: the day before date.min
NoDate == Ordinal(1, 1, 1) - 1

NoText == <<>>

NoWeek == today = NoDate /\ next_sunday = NoDate /\ end_of_week = NoDate

NoConv == date_str = NoText /\ time_str = NoText /\ dt_paris = NoText

NoReply == <<"none">>

EmptyList == JsonArr(<<>>)

Init ==
    /\ pc = "boot"
    /\ run = 1
    /\ dbExists = FALSE
    /\ store = <<>>
    /\ seq = 0
    /\ reply = NoReply
    /\ matches = EmptyList
    /\ rows = <<>>
    /\ message = NoMessage
    /\ steps = <<>>
    /\ storeAtStart = <<>>
    /\ dbAtStart = FALSE
    /\ committed = <<>>
    /\ faults = {}
    /\ NoWeek
    /\ NoConv

pureVars == <<today, next_sunday, end_of_week, date_str, time_str, dt_paris>>

\* init_db(): CREATE TABLE IF NOT EXISTS leaves an existing table as it is
init_db(ok, from, to) ==
    /\ pc = from
    /\ steps' = Append(steps, "init")
    /\ IF ok
       THEN /\ dbExists' = TRUE
            /\ pc' = to
            /\ faults' = faults
       ELSE /\ dbExists' = dbExists
            /\ pc' = "halted"
            /\ faults' = faults \cup {"init"}
    /\ UNCHANGED <<run, store, seq, reply, matches, rows, message, storeAtStart,
                   dbAtStart, committed, pureVars>>

\* lines 203-205: no games.db yet, init_db() at module level
BootCreate ==
    /\ pc = "boot"
    /\ ~dbExists
    /\ \E ok \in BOOLEAN : init_db(ok, "boot", "main")

\* lines 206-207: games.db is there
BootSkip ==
    /\ pc = "boot"
    /\ dbExists
    /\ pc' = "main"
    /\ UNCHANGED <<run, dbExists, store, seq, reply, matches, rows, message, steps,
                   storeAtStart, dbAtStart, committed, faults, pureVars>>

\* line 212
MainInit ==
    /\ pc = "main"
    /\ \E ok \in BOOLEAN : init_db(ok, "main", "fetch")

\* The mutant: the JSONDecodeError is not caught.
ParseReplyRaises(text) ==
    IF json_loads(text).ok
    THEN [raised |-> FALSE, data |-> json_loads(text).val]
    ELSE [raised |-> TRUE, data |-> EmptyList]

\* lines 143-149: the parsed reply, or [] on JSONDecodeError
ParseReply(text) ==
    IF json_loads(text).ok
    THEN [raised |-> FALSE, data |-> json_loads(text).val]
    ELSE [raised |-> FALSE, data |-> EmptyList]

\* The mutant: the completion request is inside a try that returns [].
FetchOutcomeSwallow(requestOk, text) ==
    IF requestOk
    THEN [raised |-> ParseReply(text).raised, reply |-> text, data |-> ParseReply(text).data]
    ELSE [raised |-> FALSE, reply |-> NoReply, data |-> EmptyList]

\* lines 135-149: the completion request is outside any try
FetchOutcome(requestOk, text) ==
    IF requestOk
    THEN [raised |-> ParseReply(text).raised, reply |-> text, data |-> ParseReply(text).data]
    ELSE [raised |-> TRUE, reply |-> NoReply, data |-> EmptyList]

\* line 213: fetch_cavs_schedule(); the agent's exception is caught (131-132)
Fetch ==
    /\ pc = "fetch"
    /\ \E agentOk \in BOOLEAN, requestOk \in BOOLEAN, text \in Replies :
          LET out == FetchOutcome(requestOk, text)
          IN /\ reply' = out.reply
             /\ matches' = out.data
             /\ pc' = IF out.raised THEN "halted" ELSE "persist"
             /\ faults' = faults \cup (IF agentOk THEN {} ELSE {"agent"})
                                 \cup (IF requestOk THEN {} ELSE {"request"})
                                 \cup (IF requestOk /\ out.raised THEN {"JSONDecodeError"} ELSE {})
    /\ steps' = Append(steps, "fetch")
    /\ UNCHANGED <<run, dbExists, store, seq, rows, message, storeAtStart, dbAtStart,
                   committed, pureVars>>

TokensOf(items) == [i \in 1..Len(items) |-> items[i].tok]

\* The mutant: the script goes from fetch straight to the digest.
PersistSkipped ==
    /\ pc = "persist"
    /\ pc' = "notify"
    /\ UNCHANGED <<run, dbExists, store, seq, reply, matches, rows, message, steps,
                   storeAtStart, dbAtStart, committed, faults, pureVars>>

\* line 214: save_to_db(matches)
Persist ==
    /\ pc = "persist"
    /\ steps' = Append(steps, "persist")
    /\ LET out == save_to_db(matches, store, seq)
       IN /\ store' = out.tbl
          /\ seq' = out.seq
          /\ IF out.error = ""
             THEN /\ pc' = "notify"
                  /\ committed' = Append(committed, TokensOf(Iterated(matches)))
                  /\ faults' = faults
             ELSE /\ pc' = "halted"
                  /\ committed' = committed
                  /\ faults' = faults \cup {out.error}
    /\ UNCHANGED <<run, dbExists, reply, matches, rows, message, storeAtStart, dbAtStart,
                   pureVars>>

\* lines 216-217: client.start logs in, on_ready reads the table and sends
Notify ==
    /\ pc = "notify"
    /\ steps' = Append(steps, "notify")
    /\ \E listing \in OrderedByDate(RowSet(store)) :
          /\ rows' = SelectAll(listing)
          /\ message' = Digest(SelectAll(listing))
    /\ pc' = "done"
    /\ UNCHANGED <<run, dbExists, store, seq, reply, matches, storeAtStart, dbAtStart,
                   committed, faults, pureVars>>

\* client.start(DISCORD_TOKEN) raises: on_ready never runs
NotifyLoginFails ==
    /\ pc = "notify"
    /\ steps' = Append(steps, "notify")
    /\ faults' = faults \cup {"login"}
    /\ pc' = "halted"
    /\ UNCHANGED <<run, dbExists, store, seq, reply, matches, rows, message,
                   storeAtStart, dbAtStart, committed, pureVars>>

\* channel.send raises inside on_ready: nothing is delivered and
\* client.close() is not reached
NotifySendFails ==
    /\ pc = "notify"
    /\ steps' = Append(steps, "notify")
    /\ \E listing \in OrderedByDate(RowSet(store)) : rows' = SelectAll(listing)
    /\ faults' = faults \cup {"send"}
    /\ pc' = "hung"
    /\ UNCHANGED <<run, dbExists, store, seq, reply, matches, message,
                   storeAtStart, dbAtStart, committed, pureVars>>

\* the script is started again (while the table has room for one more batch)
NextRun ==
    /\ pc \in {"done", "halted", "hung"}
    /\ run < MaxRuns
    /\ Len(store) + MaxBatch <= MaxRows
    /\ run' = run + 1
    /\ pc' = "boot"
    /\ reply' = NoReply
    /\ matches' = EmptyList
    /\ rows' = <<>>
    /\ message' = NoMessage
    /\ steps' = <<>>
    /\ faults' = {}
    /\ storeAtStart' = store
    /\ dbAtStart' = dbExists
    /\ UNCHANGED <<dbExists, store, seq, committed, pureVars>>

Next ==
    \/ BootCreate
    \/ BootSkip
    \/ MainInit
    \/ Fetch
    \/ Persist
    \/ Notify
    \/ NotifyLoginFails
    \/ NotifySendFails
    \/ NextRun

Spec == Init /\ [][Next]_vars

(***************************************************************************)
(* Properties of the script.                                               *)
(***************************************************************************)
IsPrefix(a, b) == Len(a) <= Len(b) /\ SubSeq(b, 1, Len(a)) = a

Last(a) == a[Len(a)]

Order == <<"init", "fetch", "persist", "notify">>

RowErrors == {"TypeError", "KeyError", "ValueError", "IntegrityError"}

\* the rows of this run's batch are the last rows of the table
BatchCommitted ==
    /\ matches.k = "arr"
    /\ Len(store) = Len(storeAtStart) + Len(matches.items)
    /\ IsPrefix(storeAtStart, store)
    /\ \A i \in 1..Len(matches.items) :
          /\ matches.items[i].k = "obj"
          /\ store[Len(storeAtStart) + i].date = ObjectOf(matches.items[i].tok).date
          /\ store[Len(storeAtStart) + i].opponent = ObjectOf(matches.items[i].tok).opponent

(***************************************************************************)
(* C1 as stated: the steps of a run are init, fetch, persist, notify, each *)
(* once and in this order, and the digest goes out only after this run's   *)
(* records are committed.                                                  *)
(***************************************************************************)
C1_FourStepsOnce ==
    /\ IsPrefix(steps, Order)
    /\ pc = "done" => steps = Order
    /\ message.sent => BatchCommitted

(***************************************************************************)
(* C1 as amended: init_db runs twice at the head of a run that finds no    *)
(* games.db (at module level, then in main) and once otherwise; after it   *)
(* fetch, persist and notify run at most once each, in this order, each    *)
(* after the one before has returned; a run that completes ran them all,   *)
(* and the digest goes out only after this run's records are committed.    *)
(***************************************************************************)
C1_StepsInOrder ==
    /\ IF dbAtStart
       THEN IsPrefix(steps, Order)
       ELSE IsPrefix(steps, <<"init">> \o Order)
    /\ pc = "main" => Last(<<"boot">> \o steps) \in {"boot", "init"}
    /\ pc = "fetch" => Last(steps) = "init"
    /\ pc = "persist" => Last(steps) = "fetch"
    /\ pc = "notify" => Last(steps) = "persist"
    /\ pc \in {"done", "hung"} => Last(steps) = "notify"
    /\ pc = "done" => steps = IF dbAtStart THEN Order ELSE <<"init">> \o Order
    /\ message.sent => pc = "done" /\ BatchCommitted

C1_Witness ==
    /\ pc = "done"
    /\ steps = <<"init", "init", "fetch", "persist", "notify">>
    /\ Len(matches.items) = 2
    /\ message.sent

(***************************************************************************)
(* C2  A reply that is not valid JSON parses to the empty list without an  *)
(* exception: the run goes on to persist, which adds nothing to the table, *)
(* and to notify.                                                          *)
(***************************************************************************)
NotJson == reply # NoReply /\ ~json_loads(reply).ok

C2_NonJsonReplyIsEmpty ==
    NotJson =>
        /\ matches = EmptyList
        /\ pc \in {"persist", "notify", "done", "halted", "hung"}
        /\ faults \subseteq {"agent", "login", "send"}
        /\ store = storeAtStart
        /\ pc = "halted" => Last(steps) = "notify"
        /\ pc = "done" => message.sent /\ Len(message.blocks) = Len(storeAtStart)

C2_Witness ==
    /\ reply = <<"x", "[", "gA", "]">>
    /\ pc = "done"
    /\ Len(storeAtStart) = 2
    /\ message.sent

(***************************************************************************)
(* C3 as stated: when the text-generation request fails, the fetch step    *)
(* yields the empty schedule and persist and notify still run.             *)
(***************************************************************************)
C3_RequestFailureDegrades ==
    "request" \in faults =>
        /\ matches = EmptyList
        /\ ~(pc = "halted" /\ Last(steps) = "fetch")

(***************************************************************************)
(* C3 as amended: only the JSON parse error of the reply (and an exception *)
(* of the agent call) is recovered inside fetch_cavs_schedule; a failure   *)
(* of the text-generation request propagates and halts the run in the      *)
(* fetch step: persist and notify do not run, the table is untouched and   *)
(* no digest is sent.                                                      *)
(***************************************************************************)
C3_RequestFailureAborts ==
    /\ "request" \in faults =>
          /\ pc = "halted"
          /\ Last(steps) = "fetch"
          /\ store = storeAtStart
          /\ ~message.sent
    /\ (pc = "halted" /\ Last(steps) = "fetch") => "request" \in faults
    /\ ("agent" \in faults /\ "request" \notin faults) => "fetch" \in {steps[i] : i \in 1..Len(steps)} /\ pc # "fetch"
    /\ "JSONDecodeError" \notin faults

C3_Witness ==
    /\ faults = {"agent", "request"}
    /\ pc = "halted"
    /\ Len(storeAtStart) = 1

(***************************************************************************)
(* C4  The table is append-only across runs: no step changes or removes a  *)
(* committed row or its id, and every row added has an id greater than the *)
(* id of every row committed before it.                                    *)
(***************************************************************************)
C4_AppendOnly ==
    [][/\ IsPrefix(store, store')
       /\ \A i \in (Len(store) + 1)..Len(store') :
             \A j \in 1..(i - 1) : store'[j].id < store'[i].id
       /\ \A i \in 1..Len(store') : store'[i].id <= seq']_vars

C4_Witness ==
    /\ Len(storeAtStart) = 2
    /\ Len(store) = 4
    /\ store[3].date = store[1].date
    /\ store[3].opponent = store[1].opponent
    /\ store[1].id = 1
    /\ store[3].id = 3

(***************************************************************************)
(* C5  The listing of the Notifier returns every row sorted ascending by   *)
(* date whatever the insertion order, rows of equal date in insertion      *)
(* order (ascending id).                                                   *)
(***************************************************************************)
TiesById(l) ==
    \A i \in 1..Len(l) : \A j \in (i + 1)..Len(l) :
        l[i].date = l[j].date => l[i].id < l[j].id

C5_ListingByDateThenId ==
    pc \in {"done", "hung"} =>
        \E l \in OrderedByDate(RowSet(store)) : TiesById(l) /\ rows = SelectAll(l)

(***************************************************************************)
(* C6  Every row of the table has a watch value of full or condensed: an   *)
(* element of the reply with any other watch value is never stored.        *)
(***************************************************************************)
C6_WatchEnumerated ==
    \A i \in 1..Len(store) : store[i].watch \in {"full", "condensed"}

(***************************************************************************)
(* C9  No deduplication: the table holds the rows of every committed batch *)
(* (k batches of the same n records make k * n rows), and the digest of a  *)
(* run renders every row of the table, rows of earlier runs included.      *)
(***************************************************************************)
RECURSIVE Flatten(_)
Flatten(ss) == IF ss = <<>> THEN <<>> ELSE Head(ss) \o Flatten(Tail(ss))

Occurrences(x, sq) == Cardinality({i \in 1..Len(sq) : sq[i] = x})

C9_FullIngestionNoDedup ==
    /\ Len(store) = Len(Flatten(committed))
    /\ \A i \in 1..Len(store) :
          /\ store[i].date = ObjectOf(Flatten(committed)[i]).date
          /\ store[i].opponent = ObjectOf(Flatten(committed)[i]).opponent
    /\ (committed # <<>> /\ \A i \in 1..Len(committed) : committed[i] = committed[1]) =>
          Len(store) = Len(committed) * Len(committed[1])
    /\ message.sent =>
          /\ Len(message.blocks) = Len(store)
          /\ \A i \in 1..Len(store) :
                Occurrences(Block(Selected(store[i])), message.blocks)
                    = Occurrences(Block(Selected(store[i])),
                                  [j \in 1..Len(store) |-> Block(Selected(store[j]))])

C9_Witness ==
    /\ pc = "done"
    /\ committed = <<<<"gA", "gB">>, <<"gA", "gB">>>>
    /\ Len(store) = 4
    /\ Len(message.blocks) = 4

(***************************************************************************)
(* C10  save_to_db is all-or-nothing: when a record of the batch fails (a  *)
(* missing key, an unparseable date or time, a NOT NULL violation), no     *)
(* record of the batch is committed, the table is what it was before the   *)
(* call, and the run halts without sending a digest.                       *)
(***************************************************************************)
C10_AllOrNothing ==
    faults \cap RowErrors # {} =>
        /\ store = storeAtStart
        /\ seq = Len(storeAtStart)
        /\ pc = "halted"
        /\ Last(steps) = "persist"
        /\ ~message.sent

C10_Witness ==
    /\ matches = JsonArr(<<JsonObj("gA"), JsonObj("bK")>>)
    /\ "KeyError" \in faults
    /\ pc = "halted"
    /\ Len(storeAtStart) = 2

(***************************************************************************)
(* The pure functions on their own: the week window and the conversion,    *)
(* applied to inputs drawn from bounded sets.                              *)
(***************************************************************************)
NoRun ==
    /\ pc = "off"
    /\ run = 0
    /\ dbExists = FALSE
    /\ store = <<>>
    /\ seq = 0
    /\ reply = <<>>
    /\ matches = <<>>
    /\ rows = <<>>
    /\ message = <<>>
    /\ steps = <<>>
    /\ storeAtStart = <<>>
    /\ dbAtStart = FALSE
    /\ committed = <<>>
    /\ faults = {}

FirstDay == Ordinal(2024, 1, 1)

Todays == FirstDay..(FirstDay + MaxDayOffset)

InitWeek ==
    /\ NoRun
    /\ NoConv
    /\ today \in Todays
    /\ next_sunday = NoDate
    /\ end_of_week = NoDate

\* fetch_cavs_schedule, lines 90-92
ComputeWeek ==
    /\ next_sunday = NoDate
    /\ next_sunday' = NextSunday(today)
    /\ end_of_week' = EndOfWeek(NextSunday(today))
    /\ UNCHANGED <<today, runVars, convVars>>

NextWeek == ComputeWeek

SpecWeek == InitWeek /\ [][NextWeek]_vars

ConvYears == 2024..MaxYear

ConvDates == {<<y, m, d>> : y \in ConvYears, m \in 1..12, d \in 1..31}

ConvTimes == {<<h, mi>> : h \in 0..24, mi \in {0, 30}}

InitConv ==
    /\ NoRun
    /\ NoWeek
    /\ date_str \in ConvDates
    /\ time_str \in ConvTimes
    /\ dt_paris = NoText

Convert ==
    /\ dt_paris = NoText
    /\ dt_paris' = convert_et_to_paris(date_str, time_str)
    /\ UNCHANGED <<date_str, time_str, runVars, weekVars>>

NextConv == Convert

SpecConv == InitConv /\ [][NextConv]_vars

(***************************************************************************)
(* C7  For every valid Eastern date and time, convert_et_to_paris returns  *)
(* the Paris date and time of the same instant, with the Eastern offset in *)
(* force on the game's date; 2024-03-10 19:30 Eastern is 2024-03-11 00:30  *)
(* in Paris (5 hours ahead, not 6).                                        *)
(***************************************************************************)
EasternWallAt(u) == u + EasternOffsetAtUTC(u)

ParisWallAt(u) == u + ParisOffsetAtUTC(u)

InputWall == Minutes(Ordinal(date_str[1], date_str[2], date_str[3]), time_str[1], time_str[2])

OutputWall == Minutes(Ordinal(dt_paris[1], dt_paris[2], dt_paris[3]), dt_paris[4], dt_paris[5])

\* the UTC instants at which the Eastern wall clock shows the input
InputInstants == {u \in {InputWall - EDT, InputWall - EST} : EasternWallAt(u) = InputWall}

Converted == dt_paris # NoText /\ dt_paris # ValueError

\* whole Eastern days of 2024 on which Paris is 5 hours ahead of New York
FiveHourDays2024 ==
    (Ordinal(2024, 3, 11)..Ordinal(2024, 3, 29)) \cup (Ordinal(2024, 10, 27)..Ordinal(2024, 11, 2))

\* whole Eastern days of 2024 on which Paris is 6 hours ahead of New York
SixHourDays2024 ==
    (Ordinal(2024, 1, 1)..Ordinal(2024, 3, 9))
        \cup (Ordinal(2024, 3, 31)..Ordinal(2024, 10, 25))
        \cup (Ordinal(2024, 11, 4)..Ordinal(2024, 12, 31))

C7_ConvertSameInstant ==
    Converted =>
        /\ InputInstants # {} =>
               \E u \in InputInstants : dt_paris = Strftime(ParisWallAt(u))
        /\ (date_str = <<2024, 3, 10>> /\ time_str = <<19, 30>>) =>
               dt_paris = <<2024, 3, 11, 0, 30>>
        /\ Ordinal(date_str[1], date_str[2], date_str[3]) \in FiveHourDays2024 =>
               OutputWall - InputWall = 300
        /\ Ordinal(date_str[1], date_str[2], date_str[3]) \in SixHourDays2024 =>
               OutputWall - InputWall = 360

C7_Witness ==
    /\ date_str = <<2024, 3, 10>>
    /\ time_str = <<19, 30>>
    /\ dt_paris = <<2024, 3, 11, 0, 30>>

(***************************************************************************)
(* C8  For every value of today, weekStart is the first Sunday on or after *)
(* today (today itself on a Sunday, otherwise 1 to 6 days later) and       *)
(* weekEnd is weekStart plus 6 days.                                       *)
(***************************************************************************)
Sunday == 6

C8_WeekWindow ==
    next_sunday # NoDate =>
        /\ weekday(next_sunday) = Sunday
        /\ next_sunday - today \in 0..6
        /\ \A d \in today..(next_sunday - 1) : weekday(d) # Sunday
        /\ (weekday(today) = Sunday) <=> (next_sunday = today)
        /\ end_of_week = next_sunday + 6

C8_Witness ==
    /\ next_sunday # NoDate
    /\ weekday(today) = Sunday
    /\ next_sunday = today

====
